---- MODULE Spec2Model ----
(***************************************************************************)
(* Model of topopy.Network (src/topopy/network.py): a drainage network     *)
(* obtained by thresholding the flow accumulation of a topologically       *)
(* sorted flow graph, with its derived per-channel-cell arrays and its     *)
(* topological queries.                                                    *)
(*                                                                         *)
(* Conventions                                                             *)
(*  - raster cells are the linear indices 0 .. ncells-1 (row-major);       *)
(*  - the arrays indexed in parallel with _ix are sequences; position n of *)
(*    the python array is element n+1 of the sequence;                     *)
(*  - map coordinates are counted in half cell sizes, so that cell centres *)
(*    are integral;                                                        *)
(*  - a length is a pair <<a, b>> standing for the exact real number       *)
(*    (a + b*sqrt(2)) half cell sizes: the lengths of D8 steps and their   *)
(*    sums are of this form;                                               *)
(*  - a chi value is a pair <<a, b>> standing for (a + b*sqrt(2))/ChiDen;  *)
(*  - elevations are whole numbers, and a slope is a fraction of two       *)
(*    numbers a + b*sqrt(2), in elevation units per half cell size.        *)
(***************************************************************************)
EXTENDS Integers, Sequences, FiniteSets, TLC

(***************************************************************************)
(* Bounds                                                                  *)
(***************************************************************************)
LineLen == 5        \* columns of the one-row raster
PadRows == 67       \* rows of the raster whose data sit in a corner
MaxThreshold == 2   \* thresholds 0 .. MaxThreshold
MaxA0 == 2          \* a0 in 1 .. MaxA0
MaxNPoints == 2     \* npoints in 1 .. MaxNPoints
HalfCell == 1       \* the cell size is 2*HalfCell length units

(***************************************************************************)
(* Rasters.  nrow x ncol cells, of which the cells of the first `data'     *)
(* rows and first `dcol' columns carry data (the others are NoData cells,  *)
(* which the flow graph never routes).                                     *)
(***************************************************************************)
Shapes ==
  { [nrow |-> 1, ncol |-> LineLen, data |-> 1, dcol |-> LineLen],
    [nrow |-> 2, ncol |-> 2, data |-> 2, dcol |-> 2],
    [nrow |-> PadRows, ncol |-> 3, data |-> 1, dcol |-> 3] }

Abs(x) == IF x < 0 THEN -x ELSE x

NCells(s) == s.nrow * s.ncol

Cells(s) == 0 .. (NCells(s) - 1)

CellSize == 2 * HalfCell

\* PRaster.ind_2_cell: linear index to (row, col)
ind_2_cell(s, ind) == << ind \div s.ncol, ind % s.ncol >>

\* PRaster.cell_2_ind: (row, col) to linear index
cell_2_ind(s, row, col) == row * s.ncol + col

\* PRaster.cell_2_xy: centre of the cell, the raster's lower left corner
\* being the origin, in half cell sizes
cell_2_xy(s, row, col) ==
  << CellSize * col + HalfCell, CellSize * s.nrow - CellSize * row - HalfCell >>

DataCells(s) ==
  { c \in Cells(s) : ind_2_cell(s, c)[1] < s.data /\ ind_2_cell(s, c)[2] < s.dcol }

(***************************************************************************)
(* The flow graph handed to the constructor: a list of edges               *)
(* <<giver, receiver>> between D8 neighbours, every cell a giver at most   *)
(* once, sorted so that every edge precedes the outgoing edge of its       *)
(* receiver.                                                               *)
(***************************************************************************)
Adjacent(s, g, r) ==
  /\ g # r
  /\ Abs(ind_2_cell(s, g)[1] - ind_2_cell(s, r)[1]) <= 1
  /\ Abs(ind_2_cell(s, g)[2] - ind_2_cell(s, r)[2]) <= 1

SeqGivers(f) == { f[n][1] : n \in 1..Len(f) }

RECURSIVE FlowSeqs(_, _)
FlowSeqs(s, k) ==
  IF k = 0 THEN { <<>> }
  ELSE LET P == FlowSeqs(s, k - 1)
           Free(f) == { e \in DataCells(s) \X DataCells(s) :
                          /\ Adjacent(s, e[1], e[2])
                          /\ e[1] \notin SeqGivers(f)
                          /\ e[2] \notin SeqGivers(f) }
       IN  P \cup UNION { { Append(f, e) : e \in Free(f) } :
                          f \in { p \in P : Len(p) = k - 1 } }

Flows(s) == FlowSeqs(s, Cardinality(DataCells(s)) - 1)

\* a raster of two rows whose data are the first row and the first cell of the
\* second: room for two heads beside a confluence that flows on for three edges
SlopeRaster == [nrow |-> 2, ncol |-> 5, data |-> 1, dcol |-> 5]

SlopeData == DataCells(SlopeRaster) \cup { cell_2_ind(SlopeRaster, 1, 0) }

\* the flow graphs over a set D of cells, as FlowSeqs over the data cells
RECURSIVE FlowSeqsOn(_, _, _)
FlowSeqsOn(s, D, k) ==
  IF k = 0 THEN { <<>> }
  ELSE LET P == FlowSeqsOn(s, D, k - 1)
           Free(f) == { e \in D \X D :
                          /\ Adjacent(s, e[1], e[2])
                          /\ e[1] \notin SeqGivers(f)
                          /\ e[2] \notin SeqGivers(f) }
       IN  P \cup UNION { { Append(f, e) : e \in Free(f) } :
                          f \in { p \in P : Len(p) = k - 1 } }

SlopeFlows == FlowSeqsOn(SlopeRaster, SlopeData, Cardinality(SlopeData) - 1)

\* a raster of three rows whose data are the corners, the centre and the middle
\* of the last row: room for a confluence of three tributaries, one of which
\* has a confluence of its own
OrderRaster == [nrow |-> 3, ncol |-> 3, data |-> 3, dcol |-> 3]

OrderData ==
  { cell_2_ind(OrderRaster, 0, 0), cell_2_ind(OrderRaster, 0, 2),
    cell_2_ind(OrderRaster, 1, 1), cell_2_ind(OrderRaster, 2, 0),
    cell_2_ind(OrderRaster, 2, 1), cell_2_ind(OrderRaster, 2, 2) }

OrderFlows == FlowSeqsOn(OrderRaster, OrderData, Cardinality(OrderData) - 1)

\* Flow.get_flow_accumulation: number of cells draining through each cell,
\* the cell itself included
RECURSIVE FacPass(_, _, _)
FacPass(f, n, fac) ==
  IF n > Len(f) THEN fac
  ELSE FacPass(f, n + 1, [fac EXCEPT ![f[n][2]] = @ + fac[f[n][1]]])

get_flow_accumulation(s, f) == FacPass(f, 1, [c \in Cells(s) |-> 1])

(***************************************************************************)
(* The elevation model handed to the constructor.  The flow graph comes    *)
(* from it, so the elevation falls along every edge: it is the number of   *)
(* edges down to the end of the flow path, tilted towards the first or     *)
(* towards the last of the rows that carry data; 0 on the NoData cells.    *)
(***************************************************************************)
RECURSIVE Hops(_, _)
Hops(f, c) ==
  IF c \notin SeqGivers(f) THEN 0
  ELSE 1 + Hops(f, f[CHOOSE n \in 1..Len(f) : f[n][1] = c][2])

Dems(s, D, f) ==
  LET last == CHOOSE r \in 0..(s.nrow - 1) :
                /\ \E c \in D : ind_2_cell(s, c)[1] = r
                /\ \A c \in D : ind_2_cell(s, c)[1] <= r
  IN  { [c \in Cells(s) |->
           IF c \in D THEN 2 * Hops(f, c) + ind_2_cell(s, c)[1] ELSE 0],
        [c \in Cells(s) |->
           IF c \in D THEN 2 * Hops(f, c) + (last - ind_2_cell(s, c)[1]) ELSE 0] }

(***************************************************************************)
(* Exact arithmetic on the numbers a + b*sqrt(2)                           *)
(***************************************************************************)
Z2Zero == << 0, 0 >>

Z2Add(p, q) == << p[1] + q[1], p[2] + q[2] >>

Z2Sub(p, q) == << p[1] - q[1], p[2] - q[2] >>

Z2Scale(k, p) == << k * p[1], k * p[2] >>

Z2Mul(p, q) == << p[1] * q[1] + 2 * p[2] * q[2], p[1] * q[2] + p[2] * q[1] >>

\* 0 <= a + b*sqrt(2)
Z2NonNeg(p) ==
  IF p[1] >= 0 /\ p[2] >= 0 THEN TRUE
  ELSE IF p[1] <= 0 /\ p[2] <= 0 THEN FALSE
  ELSE IF p[1] >= 0 THEN p[1] * p[1] >= 2 * p[2] * p[2]
  ELSE 2 * p[2] * p[2] >= p[1] * p[1]

Z2Leq(p, q) == Z2NonNeg(Z2Sub(q, p))

\* np.sqrt of the squared length of a step between D8 neighbours
Z2Sqrt(sq) ==
  IF \E k \in 0..sq : k * k = sq
  THEN << CHOOSE k \in 0..sq : k * k = sq, 0 >>
  ELSE << 0, CHOOSE k \in 0..sq : 2 * k * k = sq >>

\* concavity indices offered to the constructor and to calculate_chi
ThetaRefs == { 0, 1 }

RECURSIVE Pow(_, _)
Pow(b, e) == IF e = 0 THEN 1 ELSE b * Pow(b, e - 1)

RECURSIVE Gcd(_, _)
Gcd(a, b) == IF b = 0 THEN a ELSE Gcd(b, a % b)

RECURSIVE LcmUpTo(_)
LcmUpTo(n) == IF n <= 1 THEN 1 ELSE (LcmUpTo(n - 1) * n) \div Gcd(LcmUpTo(n - 1), n)

\* largest flow accumulation of a channel cell of the rasters in Shapes
MaxFac == IF LineLen > 4 THEN LineLen ELSE 4

\* common denominator of the chi values: every area^thetaref divides it
ChiDen == LcmUpTo(MaxFac) * CellSize * CellSize

VARIABLES
  shape,      \* the raster: _dims, _ncells (PRaster properties of the flow)
  flow,       \* constructor input: the flow graph's edge list (flow._ix, flow._ixc)
  threshold,  \* constructor input
  ix,         \* _ix: givers of the channel edges
  ixc,        \* _ixc: their receivers
  ax,         \* _ax: drainage area of ix[n]
  dd,         \* _dd: giver-receiver distance of edge n
  dx,         \* _dx: distance from ix[n] to the mouth
  chi,        \* _chi: chi of ix[n]
  thetaref,   \* arguments of the latest calculate_chi
  a0,
  out,        \* the latest query and what it returned or raised
  zx,         \* _zx: elevation of ix[n]
  slp,        \* _slp: slope of ix[n], an attribute once calculate_slope has returned
  cs          \* the frame of the running calculate_slope: its position and locals

vars ==
  << shape, flow, threshold, ix, ixc, ax, dd, dx, chi, thetaref, a0, out, zx, slp, cs >>

SeqSet(q) == { q[n] : n \in 1..Len(q) }

(***************************************************************************)
(* Network.__init__                                                        *)
(***************************************************************************)
\* the threshold in thousandths: 0 stands for 0.5% of the number of cells
Threshold1000(s, thr) == IF thr = 0 THEN NCells(s) * 5 ELSE thr * 1000

\* faulty variant: the comparison lets the threshold itself through
ChannelMask_AtLeast(s, fac, thr) ==
  [c \in Cells(s) |-> fac[c] * 1000 >= Threshold1000(s, thr)]

\* w = fac > threshold
ChannelMask(s, fac, thr) ==
  [c \in Cells(s) |-> fac[c] * 1000 > Threshold1000(s, thr)]

\* a[I] for a boolean array I: the elements of a at the True positions, in order
RECURSIVE BoolIndex(_, _)
BoolIndex(a, I) ==
  IF Len(a) = 0 THEN << >>
  ELSE IF Head(I) THEN << Head(a) >> \o BoolIndex(Tail(a), Tail(I))
  ELSE BoolIndex(Tail(a), Tail(I))

SelectedEdges(s, f, thr) ==
  LET w == ChannelMask(s, get_flow_accumulation(s, f), thr)
      I == [n \in 1..Len(f) |-> w[f[n][1]]]
  IN  BoolIndex(f, I)

\* d_gr: planar distance between the centres of giver and receiver
GiverReceiverDistance(s, g, r) ==
  LET gc == ind_2_cell(s, g)
      rc == ind_2_cell(s, r)
      gxy == cell_2_xy(s, gc[1], gc[2])
      rxy == cell_2_xy(s, rc[1], rc[2])
  IN  Z2Sqrt((gxy[1] - rxy[1]) * (gxy[1] - rxy[1])
             + (gxy[2] - rxy[2]) * (gxy[2] - rxy[2]))

\* faulty variant: the giver's distance forgets the distance of its receiver
RECURSIVE DistancePass_NoCarry(_, _, _, _, _)
DistancePass_NoCarry(s, gv, rc, n, acc) ==
  IF n = 0 THEN acc
  ELSE LET d_gr == GiverReceiverDistance(s, gv[n], rc[n])
       IN  DistancePass_NoCarry(s, gv, rc, n - 1,
             [di |-> [acc.di EXCEPT ![gv[n]] = d_gr],
              dd |-> [acc.dd EXCEPT ![n] = d_gr]])

\* the reverse loop over the edges: n runs from the last edge to the first;
\* acc = [di |-> distance to mouth per cell, dd |-> distance per edge]
RECURSIVE DistancePass(_, _, _, _, _)
DistancePass(s, gv, rc, n, acc) ==
  IF n = 0 THEN acc
  ELSE LET d_gr == GiverReceiverDistance(s, gv[n], rc[n])
       IN  DistancePass(s, gv, rc, n - 1,
             [di |-> [acc.di EXCEPT ![gv[n]] = Z2Add(acc.di[rc[n]], d_gr)],
              dd |-> [acc.dd EXCEPT ![n] = d_gr]])

Distances(s, gv, rc) ==
  DistancePass(s, gv, rc, Len(gv),
               [di |-> [c \in Cells(s) |-> Z2Zero], dd |-> [n \in 1..Len(gv) |-> Z2Zero]])

(***************************************************************************)
(* Network.calculate_chi                                                   *)
(***************************************************************************)
\* faulty variant: the area is not raised to thetaref
ChiIncrement_IgnoresTheta(th, a, d, area) == Z2Scale(a * (ChiDen \div area), d)

\* a0 * dd[n] / ax[n]**thetaref, in units of 1/ChiDen
ChiIncrement(th, a, d, area) == Z2Scale(a * (ChiDen \div Pow(area, th)), d)

RECURSIVE ChiPass(_, _, _, _, _, _, _, _)
ChiPass(gv, rc, d, area, th, a, n, c) ==
  IF n = 0 THEN c
  ELSE ChiPass(gv, rc, d, area, th, a, n - 1,
         [c EXCEPT ![gv[n]] = Z2Add(c[rc[n]], ChiIncrement(th, a, d[n], area[n]))])

ChiValues(s, gv, rc, d, area, th, a) ==
  LET c == ChiPass(gv, rc, d, area, th, a, Len(gv), [k \in Cells(s) |-> Z2Zero])
  IN  [n \in 1..Len(gv) |-> c[gv[n]]]

NoQuery == [op |-> "none"]

\* _slp before calculate_slope has returned: the object has no such attribute
NoSlope == [set |-> FALSE, val |-> << >>]

\* no calculate_slope is running
Idle == [pc |-> "idle"]

\* the object that Network(dem, flow, threshold, thetaref) leaves
Construct(s, f, thr, th, z) ==
  LET fac == get_flow_accumulation(s, f)
      e == SelectedEdges(s, f, thr)
      gv == [n \in 1..Len(e) |-> e[n][1]]
      rc == [n \in 1..Len(e) |-> e[n][2]]
      area == [n \in 1..Len(e) |-> fac[gv[n]] * CellSize * CellSize]
      ds == Distances(s, gv, rc)
  IN  /\ shape = s
      /\ flow = f
      /\ threshold = thr
      /\ ix = gv
      /\ ixc = rc
      /\ ax = area
      /\ zx = [n \in 1..Len(e) |-> z[gv[n]]]
      /\ dd = ds.dd
      /\ dx = [n \in 1..Len(e) |-> ds.di[gv[n]]]
      /\ chi = ChiValues(s, gv, rc, ds.dd, area, th, 1)
      /\ thetaref = th
      /\ a0 = 1
      /\ out = NoQuery
      /\ slp = NoSlope
      /\ cs = Idle

Init ==
  \E s \in Shapes :
    \E f \in Flows(s), thr \in 0..MaxThreshold, th \in ThetaRefs :
      \E z \in Dems(s, DataCells(s), f) : Construct(s, f, thr, th, z)

\* the networks of the three-row raster; the stream order does not read _chi,
\* and thetaref is left at 0
InitOrder ==
  \E f \in OrderFlows, thr \in 0..MaxThreshold :
    \E z \in Dems(OrderRaster, OrderData, f) : Construct(OrderRaster, f, thr, 0, z)

\* the networks of the two-row raster; calculate_slope does not read _chi, and
\* thetaref is left at 0
InitSlope ==
  \E f \in SlopeFlows, thr \in 0..MaxThreshold :
    \E z \in Dems(SlopeRaster, SlopeData, f) : Construct(SlopeRaster, f, thr, 0, z)

CalculateChi(th, a) ==
  /\ chi' = ChiValues(shape, ix, ixc, dd, ax, th, a)
  /\ thetaref' = th
  /\ a0' = a
  /\ UNCHANGED << shape, flow, threshold, ix, ixc, ax, dd, dx, out, zx, slp, cs >>

(***************************************************************************)
(* Network.get_stream_poi                                                  *)
(***************************************************************************)
PoiKinds == { "heads", "confluences", "outlets" }

CoordKinds == { "CELL", "XY", "IND" }

\* w: the cells marked as givers or as receivers
ChannelCells(s, gv, rc) ==
  LET marked == SeqSet(gv) \cup SeqSet(rc)
  IN  [c \in Cells(s) |-> c \in marked]

\* np.sum(sp_arr, 0): per cell, the number of edges it receives
ColumnSum(s, gv, rc) ==
  [c \in Cells(s) |-> Cardinality({ n \in 1..Len(rc) : rc[n] = c })]

\* np.sum(sp_arr, 1): per cell, the number of edges it gives
RowSum(s, gv, rc) ==
  [c \in Cells(s) |-> Cardinality({ n \in 1..Len(gv) : gv[n] = c })]

\* faulty variant: a cell with a single giver counts as a confluence
PoiMask_ConfluenceAny(s, gv, rc, kind) ==
  LET w == ChannelCells(s, gv, rc)
      sum0 == ColumnSum(s, gv, rc)
      sum1 == RowSum(s, gv, rc)
  IN  IF kind = "heads"
      THEN [c \in Cells(s) |-> sum0[c] = 0 /\ w[c]]
      ELSE IF kind = "confluences"
      THEN [c \in Cells(s) |-> sum0[c] > 0]
      ELSE [c \in Cells(s) |-> sum1[c] = 0 /\ w[c]]

\* faulty variant: the heads are taken from the row sums, like the outlets
PoiMask_HeadsByRow(s, gv, rc, kind) ==
  LET w == ChannelCells(s, gv, rc)
      sum0 == ColumnSum(s, gv, rc)
      sum1 == RowSum(s, gv, rc)
  IN  IF kind = "heads"
      THEN [c \in Cells(s) |-> sum1[c] = 0 /\ w[c]]
      ELSE IF kind = "confluences"
      THEN [c \in Cells(s) |-> sum0[c] > 1]
      ELSE [c \in Cells(s) |-> sum1[c] = 0 /\ w[c]]

PoiMask(s, gv, rc, kind) ==
  LET w == ChannelCells(s, gv, rc)
      sum0 == ColumnSum(s, gv, rc)
      sum1 == RowSum(s, gv, rc)
  IN  IF kind = "heads"
      THEN [c \in Cells(s) |-> sum0[c] = 0 /\ w[c]]
      ELSE IF kind = "confluences"
      THEN [c \in Cells(s) |-> sum0[c] > 1]
      ELSE [c \in Cells(s) |-> sum1[c] = 0 /\ w[c]]

\* np.where on the reshaped mask: the (row, col) of the True cells, row-major,
\* which is the order of their linear indices
RECURSIVE WherePass(_, _)
WherePass(s, cells) ==
  IF cells = {} THEN << >>
  ELSE LET c == CHOOSE m \in cells : \A k \in cells : m <= k
       IN  << ind_2_cell(s, c) >> \o WherePass(s, cells \ { c })

Where(s, mask) == WherePass(s, { c \in Cells(s) : mask[c] })

StreamPoi(s, gv, rc, kind, coords) ==
  LET k == IF kind \in PoiKinds THEN kind ELSE "heads"
      co == IF coords \in CoordKinds THEN coords ELSE "CELL"
      rowcol == Where(s, PoiMask(s, gv, rc, k))
  IN  IF co = "CELL" THEN rowcol
      ELSE IF co = "XY"
      THEN [n \in 1..Len(rowcol) |-> cell_2_xy(s, rowcol[n][1], rowcol[n][2])]
      ELSE [n \in 1..Len(rowcol) |-> cell_2_ind(s, rowcol[n][1], rowcol[n][2])]

GetStreamPoi(kind, coords) ==
  /\ out' = [op |-> "get_stream_poi", kind |-> kind, coords |-> coords,
             err |-> "", val |-> StreamPoi(shape, ix, ixc, kind, coords)]
  /\ UNCHANGED << shape, flow, threshold, ix, ixc, ax, dd, dx, chi, thetaref, a0, zx, slp, cs >>

(***************************************************************************)
(* Network.snap_points                                                     *)
(***************************************************************************)
SnapKinds == { "channel" } \cup PoiKinds

\* the coordinates the points are snapped to
SnapReference(s, gv, rc, kind) ==
  LET k == IF kind \in SnapKinds THEN kind ELSE "channel"
  IN  IF k \in PoiKinds THEN StreamPoi(s, gv, rc, k, "XY")
      ELSE [n \in 1..Len(gv) |->
              cell_2_xy(s, ind_2_cell(s, gv[n])[1], ind_2_cell(s, gv[n])[2])]

\* the square of di: np.sqrt is increasing, the minimum is at the same place
SquaredDistance(p, q) ==
  (p[1] - q[1]) * (p[1] - q[1]) + (p[2] - q[2]) * (p[2] - q[2])

\* np.argmin along a row of di: the first position of the minimum
ArgMin(p, poi) ==
  CHOOSE n \in 1..Len(poi) :
    /\ \A m \in 1..Len(poi) : SquaredDistance(p, poi[n]) <= SquaredDistance(p, poi[m])
    /\ \A m \in 1..(n - 1) : SquaredDistance(p, poi[m]) > SquaredDistance(p, poi[n])

\* faulty variant: an empty reference set gives an empty result
SnapResult_EmptyReturn(s, gv, rc, points, kind) ==
  LET poi == SnapReference(s, gv, rc, kind)
  IN  IF Len(poi) = 0
      THEN [err |-> "", val |-> << >>]
      ELSE [err |-> "", val |-> [n \in 1..Len(points) |-> poi[ArgMin(points[n], poi)]]]

\* np.argmin raises ValueError on an axis of length 0
SnapResult(s, gv, rc, points, kind) ==
  LET poi == SnapReference(s, gv, rc, kind)
  IN  IF Len(poi) = 0
      THEN [err |-> "ValueError", val |-> << >>]
      ELSE [err |-> "", val |-> [n \in 1..Len(points) |-> poi[ArgMin(points[n], poi)]]]

SnapPoints(points, kind) ==
  /\ LET r == SnapResult(shape, ix, ixc, points, kind)
     IN  out' = [op |-> "snap_points", kind |-> kind, points |-> points,
                 err |-> r.err, val |-> r.val]
  /\ UNCHANGED << shape, flow, threshold, ix, ixc, ax, dd, dx, chi, thetaref, a0, zx, slp, cs >>

(***************************************************************************)
(* Network.get_stream_segments                                             *)
(***************************************************************************)
\* seg_arr[inds] = n+1 for the n-th of the heads followed by the confluences
RECURSIVE SegmentSeeds(_, _, _)
SegmentSeeds(all_ind, n, seg_arr) ==
  IF n > Len(all_ind) THEN seg_arr
  ELSE SegmentSeeds(all_ind, n + 1, [seg_arr EXCEPT ![all_ind[n]] = n])

\* the forward loop over the edges
RECURSIVE SegmentPass(_, _, _, _)
SegmentPass(gv, rc, n, seg_arr) ==
  IF n > Len(gv) THEN seg_arr
  ELSE SegmentPass(gv, rc, n + 1,
         IF seg_arr[rc[n]] = 0
         THEN [seg_arr EXCEPT ![rc[n]] = seg_arr[gv[n]]]
         ELSE seg_arr)

\* faulty variant: the confluences get no id of their own
StreamSegments_HeadsOnly(s, gv, rc) ==
  LET head_ind == StreamPoi(s, gv, rc, "heads", "IND")
  IN  SegmentPass(gv, rc, 1, SegmentSeeds(head_ind, 1, [c \in Cells(s) |-> 0]))

StreamSegments(s, gv, rc) ==
  LET head_ind == StreamPoi(s, gv, rc, "heads", "IND")
      conf_ind == StreamPoi(s, gv, rc, "confluences", "IND")
      all_ind == head_ind \o conf_ind
  IN  SegmentPass(gv, rc, 1, SegmentSeeds(all_ind, 1, [c \in Cells(s) |-> 0]))

GetStreamSegments ==
  /\ out' = [op |-> "get_stream_segments", err |-> "",
             val |-> StreamSegments(shape, ix, ixc)]
  /\ UNCHANGED << shape, flow, threshold, ix, ixc, ax, dd, dx, chi, thetaref, a0, zx, slp, cs >>

(***************************************************************************)
(* Network.get_stream_order                                                *)
(***************************************************************************)
OrderKinds == { "strahler", "shreeve" }

\* acc = [str_ord |-> order per cell, visited |-> flag per cell]
RECURSIVE StrahlerPass(_, _, _, _)
StrahlerPass(gv, rc, n, acc) ==
  IF n > Len(gv) THEN acc
  ELSE StrahlerPass(gv, rc, n + 1,
         IF acc.str_ord[rc[n]] = acc.str_ord[gv[n]] /\ acc.visited[rc[n]]
         THEN [acc EXCEPT !.str_ord[rc[n]] = @ + 1]
         ELSE [str_ord |-> [acc.str_ord EXCEPT ![rc[n]] =
                              IF acc.str_ord[gv[n]] > @ THEN acc.str_ord[gv[n]] ELSE @],
               visited |-> [acc.visited EXCEPT ![rc[n]] = TRUE]])

RECURSIVE ShreevePass(_, _, _, _)
ShreevePass(gv, rc, n, acc) ==
  IF n > Len(gv) THEN acc
  ELSE ShreevePass(gv, rc, n + 1,
         IF acc.visited[rc[n]]
         THEN [acc EXCEPT !.str_ord[rc[n]] = @ + acc.str_ord[gv[n]]]
         ELSE [str_ord |-> [acc.str_ord EXCEPT ![rc[n]] =
                              IF acc.str_ord[gv[n]] > @ THEN acc.str_ord[gv[n]] ELSE @],
               visited |-> [acc.visited EXCEPT ![rc[n]] = TRUE]])

\* the object as the methods find it: the attributes that __init__ and
\* calculate_chi assign (those of the arrays modelled here)
Self ==
  [_dims |-> << shape.nrow, shape.ncol >>, _ncells |-> NCells(shape),
   _ix |-> ix, _ixc |-> ixc, _ax |-> ax, _zx |-> zx, _dd |-> dd, _dx |-> dx, _chi |-> chi]

\* kind is not one of the two: returns None.  Otherwise str_ord[self._chcells] = 1
\* is evaluated first, and reading an attribute the object does not have raises
StreamOrder(s, self, kind) ==
  IF kind \notin OrderKinds THEN [err |-> "", val |-> "None"]
  ELSE IF "_chcells" \notin DOMAIN self
  THEN [err |-> "AttributeError", val |-> "None"]
  ELSE LET start == [str_ord |-> [c \in Cells(s) |->
                                    IF c \in SeqSet(self["_chcells"]) THEN 1 ELSE 0],
                     visited |-> [c \in Cells(s) |-> FALSE]]
       IN  [err |-> "",
            val |-> IF kind = "strahler"
                    THEN StrahlerPass(self["_ix"], self["_ixc"], 1, start).str_ord
                    ELSE ShreevePass(self["_ix"], self["_ixc"], 1, start).str_ord]

\* the cells that get_stream_order marks with 1 before its passes, were
\* _chcells assigned: the channel cells, as get_stream_poi marks them
ChannelInd(s, gv, rc) ==
  LET rowcol == Where(s, ChannelCells(s, gv, rc))
  IN  [n \in 1..Len(rowcol) |-> cell_2_ind(s, rowcol[n][1], rowcol[n][2])]

\* lines 365-375 on their own: the strahler loop over an array that holds 1 at
\* the channel cells
StrahlerLoop ==
  /\ LET r == StreamOrder(shape,
                          Self @@ [a \in { "_chcells" } |-> ChannelInd(shape, ix, ixc)],
                          "strahler")
     IN  out' = [op |-> "strahler_loop", err |-> r.err, val |-> r.val]
  /\ UNCHANGED << shape, flow, threshold, ix, ixc, ax, dd, dx, chi, thetaref, a0, zx, slp, cs >>

GetStreamOrder(kind) ==
  /\ LET r == StreamOrder(shape, Self, kind)
     IN  out' = [op |-> "get_stream_order", kind |-> kind, err |-> r.err, val |-> r.val]
  /\ UNCHANGED << shape, flow, threshold, ix, ixc, ax, dd, dx, chi, thetaref, a0, zx, slp, cs >>

(***************************************************************************)
(* Network.get_streams                                                     *)
(***************************************************************************)
\* w = zeros; w[self._chcells] = 1 is evaluated before anything is returned,
\* and reading an attribute the object does not have raises; the array is the
\* same with asgrid or without (the Grid wraps it with NoData 0)
Streams(s, self, asgrid) ==
  IF "_chcells" \notin DOMAIN self
  THEN [err |-> "AttributeError", val |-> "None"]
  ELSE [err |-> "",
        val |-> [c \in Cells(s) |-> IF c \in SeqSet(self["_chcells"]) THEN 1 ELSE 0]]

GetStreams(asgrid) ==
  /\ LET r == Streams(shape, Self, asgrid)
     IN  out' = [op |-> "get_streams", asgrid |-> asgrid, err |-> r.err, val |-> r.val]
  /\ UNCHANGED << shape, flow, threshold, ix, ixc, ax, dd, dx, chi, thetaref, a0, zx, slp, cs >>

(***************************************************************************)
(* Network.calculate_slope, one action per stretch of the method: its      *)
(* preamble, the part of the loop body up to the while loop (one head),    *)
(* one turn of the while loop, and the statement after the loop.           *)
(* A slope is the fraction num/den of two numbers a + b*sqrt(2), not       *)
(* reduced; a window is the python list, win[1] here being win[0] there.   *)
(***************************************************************************)
SlopeZero == [num |-> Z2Zero, den |-> << 1, 0 >>]

\* the value 0.00001 written where a path ends
SlopeSentinel == [num |-> << 1, 0 >>, den |-> << 100000, 0 >>]

\* == on two slopes
SlopeEq(a, b) == Z2Mul(a.num, b.den) = Z2Mul(b.num, a.den)

\* ixcix = zeros(ncells); ixcix[ix] = arange(ix.size): the position of a giver's
\* edge, counted from 0, and 0 for every cell that gives no edge
Ixcix(s, gv) ==
  [c \in Cells(s) |->
     IF c \in SeqSet(gv) THEN (CHOOSE n \in 1..Len(gv) : gv[n] = c) - 1 ELSE 0]

\* heads[np.argsort(-elev)]: the highest head first; arrays this short are
\* sorted by insertion, which leaves heads of equal elevation in index order
SortedHeads(heads, elev) ==
  LET rank(n) == Cardinality({ m \in 1..Len(heads) :
                                 \/ elev[m] > elev[n]
                                 \/ elev[m] = elev[n] /\ m < n })
  IN  [k \in 1..Len(heads) |-> heads[CHOOSE n \in 1..Len(heads) : rank(n) = k - 1]]

\* self._ixc[ixcix[c]]
Receiver(pos, c) == ixc[pos[c] + 1]

RECURSIVE WindowSums(_, _, _, _)
WindowSums(pos, win, n, acc) ==
  IF n > Len(win) THEN acc
  ELSE LET d == dx[pos[win[n]] + 1]
           z == zx[pos[win[n]] + 1]
       IN  WindowSums(pos, win, n + 1,
             [d |-> Z2Add(acc.d, d), z |-> acc.z + z,
              dz |-> Z2Add(acc.dz, Z2Scale(z, d)), dd |-> Z2Add(acc.dd, Z2Mul(d, d))])

\* np.polyfit(di, zi, deg = 1, full = True)[:2] and float(1 - SCR/...): the
\* least-squares slope.  With fewer than three points, or with all the di
\* equal, lstsq returns an empty array of residuals, and float() of an empty
\* array raises TypeError
Fit(pos, win) ==
  LET S == WindowSums(pos, win, 1, [d |-> Z2Zero, z |-> 0, dz |-> Z2Zero, dd |-> Z2Zero])
      n == Len(win)
      num == Z2Sub(Z2Scale(n, S.dz), Z2Scale(S.z, S.d))
      den == Z2Sub(Z2Scale(n, S.dd), Z2Mul(S.d, S.d))
  IN  IF n < 3 \/ den = Z2Zero THEN [err |-> "TypeError", slp |-> SlopeZero]
      ELSE [err |-> "", slp |-> IF num = Z2Zero THEN SlopeZero ELSE [num |-> num, den |-> den]]

\* an exception leaves the method: _slp is not assigned
SlopeRaise(err) ==
  /\ cs' = Idle
  /\ out' = [op |-> "calculate_slope", npoints |-> cs.npoints, err |-> err]
  /\ UNCHANGED slp

\* lines 210-221
SlopeBegin(npoints) ==
  /\ cs.pc = "idle"
  /\ LET pos == Ixcix(shape, ix)
         heads == StreamPoi(shape, ix, ixc, "heads", "IND")
         elev == [n \in 1..Len(heads) |-> zx[pos[heads[n]] + 1]]
     IN  cs' = [pc |-> "head", npoints |-> npoints, ixcix |-> pos,
                heads |-> SortedHeads(heads, elev), win |-> << >>, mcell |-> 0,
                slopes |-> [c \in Cells(shape) |-> SlopeZero],
                r2 |-> [c \in Cells(shape) |-> "0"]]
  /\ UNCHANGED << shape, flow, threshold, ix, ixc, ax, dd, dx, chi, thetaref, a0, out,
                  zx, slp >>

\* lines 224-243: the next head, skipped or given its first window
SlopeHead ==
  /\ cs.pc = "head"
  /\ cs.heads # << >>
  /\ LET pos == cs.ixcix
         lcell == Head(cs.heads)
         mcell == Receiver(pos, lcell)
         fcell == Receiver(pos, mcell)
         win == << fcell, mcell, lcell >>
         fit == Fit(pos, win)
     IN  IF pos[fcell] = 0 \/ pos[Receiver(pos, fcell)] = 0
         THEN /\ cs' = [cs EXCEPT !.heads = Tail(@)]
              /\ UNCHANGED << out, slp >>
         ELSE IF fit.err # ""
         THEN SlopeRaise(fit.err)
         ELSE /\ cs' = [cs EXCEPT !.pc = "walk", !.win = win, !.mcell = mcell,
                                  !.slopes[mcell] = fit.slp, !.r2[mcell] = "R2"]
              /\ UNCHANGED << out, slp >>
  /\ UNCHANGED << shape, flow, threshold, ix, ixc, ax, dd, dx, chi, thetaref, a0, zx >>

\* lines 246-291: one turn of the while loop
SlopeWalk ==
  /\ cs.pc = "walk"
  /\ LET pos == cs.ixcix
         winlen == cs.npoints * 2 + 1
         fcell == cs.win[1]
         grows == pos[Receiver(pos, fcell)] # 0
         mcell == Receiver(pos, cs.mcell)
         grown == << Receiver(pos, fcell) >> \o cs.win
         win == IF grows
                THEN IF Len(grown) < winlen
                     THEN << Receiver(pos, grown[1]) >> \o grown
                     ELSE SubSeq(grown, 1, Len(grown) - 1)
                ELSE SubSeq(cs.win, 1, Len(cs.win) - 2)
         ends == ~grows /\ Len(win) = 3
         slopes == IF ends THEN [cs.slopes EXCEPT ![fcell] = SlopeSentinel] ELSE cs.slopes
         r2 == IF ends THEN [cs.r2 EXCEPT ![fcell] = "0.00001"] ELSE cs.r2
         fit == Fit(pos, win)
     IN  IF cs.win = << >> \/ (~grows /\ Len(cs.win) < 2)
         THEN SlopeRaise("IndexError")
         ELSE IF fit.err # ""
         THEN SlopeRaise(fit.err)
         ELSE /\ cs' = IF slopes[mcell] = SlopeZero
                       THEN [cs EXCEPT !.pc = IF ends THEN "head" ELSE "walk",
                                       !.heads = IF ends THEN Tail(@) ELSE @,
                                       !.win = win, !.mcell = mcell,
                                       !.slopes = [slopes EXCEPT ![mcell] = fit.slp],
                                       !.r2 = [r2 EXCEPT ![mcell] = "R2"]]
                       ELSE [cs EXCEPT !.pc = "head", !.heads = Tail(@),
                                       !.win = win, !.mcell = mcell,
                                       !.slopes = slopes, !.r2 = r2]
              /\ UNCHANGED << out, slp >>
  /\ UNCHANGED << shape, flow, threshold, ix, ixc, ax, dd, dx, chi, thetaref, a0, zx >>

\* line 293, and the return
SlopeEnd ==
  /\ cs.pc = "head"
  /\ cs.heads = << >>
  /\ slp' = [set |-> TRUE, val |-> [n \in 1..Len(ix) |-> cs.slopes[ix[n]]]]
  /\ out' = [op |-> "calculate_slope", npoints |-> cs.npoints, err |-> ""]
  /\ cs' = Idle
  /\ UNCHANGED << shape, flow, threshold, ix, ixc, ax, dd, dx, chi, thetaref, a0, zx >>

CalculateSlope == (\E npoints \in 1..MaxNPoints : SlopeBegin(npoints))
                    \/ SlopeHead \/ SlopeWalk \/ SlopeEnd

(***************************************************************************)
(* The inputs of the calls and the specifications                          *)
(***************************************************************************)
\* the points of the half-cell lattice from (x0, y) rightwards to x1, then the
\* rows below down to y0
RECURSIVE LatticeFrom(_, _, _, _, _)
LatticeFrom(x, y, x0, x1, y0) ==
  IF y < y0 THEN << >>
  ELSE IF x > x1 THEN LatticeFrom(x0, y - 1, x0, x1, y0)
  ELSE << << x, y >> >> \o LatticeFrom(x + 1, y, x0, x1, y0)

\* query points: the lattice over the cells that carry data, from the centres of
\* the first data row to the centres of the last
Lattice(s) ==
  LatticeFrom(0, cell_2_xy(s, 0, 0)[2], 0, CellSize * s.dcol, cell_2_xy(s, s.data - 1, 0)[2])

PointArrays(s) == { << >>, Lattice(s) }

ChiCall == \E th \in ThetaRefs, a \in 1..MaxA0 : CalculateChi(th, a)

PoiCall ==
  \E kind \in PoiKinds \cup { "other" }, coords \in CoordKinds \cup { "other" } :
    GetStreamPoi(kind, coords)

SnapCall ==
  \E points \in PointArrays(shape), kind \in SnapKinds \cup { "other" } :
    SnapPoints(points, kind)

OrderCall == \E kind \in OrderKinds \cup { "other" } : GetStreamOrder(kind)

StreamsCall == \E asgrid \in BOOLEAN : GetStreams(asgrid)

\* the methods run one at a time: no other call starts inside calculate_slope
Next ==
  \/ /\ cs.pc = "idle"
     /\ ChiCall \/ PoiCall \/ SnapCall \/ GetStreamSegments \/ OrderCall \/ StreamsCall
  \/ CalculateSlope

\* the whole object
Spec == Init /\ [][Next]_vars

\* The queries read the arrays of the constructor alone and write nothing on the
\* object, and calculate_chi writes _chi alone, which no query reads: the
\* specifications below exercise the construction with one group of calls each.
SpecChi == Init /\ [][ChiCall]_vars

SpecPoi == Init /\ [][PoiCall]_vars

SpecSnap == Init /\ [][SnapCall]_vars

SpecTopo == Init /\ [][GetStreamSegments \/ OrderCall \/ StreamsCall]_vars

SpecSlope == InitSlope /\ [][CalculateSlope]_vars

\* the strahler loop as a function of the network
SpecStrahler == InitOrder /\ [][StrahlerLoop]_vars

(***************************************************************************)
(* Reference notions of the properties, read off the edge list directly    *)
(***************************************************************************)
GiverCells == SeqSet(ix)

ReceiverCells == SeqSet(ixc)

NetworkCells == GiverCells \cup ReceiverCells

\* the edge that leaves a giver cell
EdgeOf(c) == CHOOSE n \in 1..Len(ix) : ix[n] = c

InDegree(c) == Cardinality({ n \in 1..Len(ixc) : ixc[n] = c })

HeadCells == { c \in GiverCells : InDegree(c) = 0 }

ConfluenceCells == { c \in NetworkCells : InDegree(c) >= 2 }

OutletCells == ReceiverCells \ GiverCells

\* every edge precedes the outgoing edge of its receiver
UpstreamFirst == \A n, m \in 1..Len(ix) : ix[m] = ixc[n] => n < m

\* the sum of the edge lengths from a cell down to its outlet
RECURSIVE LengthToOutlet(_)
LengthToOutlet(c) ==
  IF c \notin GiverCells THEN Z2Zero
  ELSE Z2Add(dd[EdgeOf(c)], LengthToOutlet(ixc[EdgeOf(c)]))

\* chi of a cell: that of its edge, 0 at an outlet
ChiAt(c) == IF c \in GiverCells THEN chi[EdgeOf(c)] ELSE Z2Zero

PoiCells(kind) == SeqSet(StreamPoi(shape, ix, ixc, kind, "IND"))

(***************************************************************************)
(* Construction                                                            *)
(***************************************************************************)
\* the flow edges whose giver has more accumulation than the threshold,
\* 0 standing for ncells/200
KeptFlowEdges ==
  LET fac == get_flow_accumulation(shape, flow)
  IN  { m \in 1..Len(flow) :
          IF threshold = 0 THEN 200 * fac[flow[m][1]] > NCells(shape)
          ELSE fac[flow[m][1]] > threshold }

\* C1: the network holds exactly the flow edges whose giver has an accumulation
\* strictly above the threshold (0 standing for 0.5% of the cell count), in the
\* order of the flow graph's edge list; when no edge is kept the network is
\* empty, with all its arrays of length 0
C1_ThresholdSelection ==
  /\ Len(ix) = Cardinality(KeptFlowEdges)
  /\ Len(ixc) = Len(ix) /\ Len(ax) = Len(ix) /\ Len(dd) = Len(ix)
  /\ Len(dx) = Len(ix) /\ Len(chi) = Len(ix)
  /\ \A n \in 1..Len(ix) :
       \E m \in KeptFlowEdges :
         /\ flow[m] = << ix[n], ixc[n] >>
         /\ Cardinality({ k \in KeptFlowEdges : k < m }) = n - 1
  /\ KeptFlowEdges = {} => ix = << >> /\ ixc = << >> /\ dx = << >> /\ chi = << >>

\* the default threshold drops some edges of the flow graph and keeps others
C1_Witness ==
  /\ threshold = 0
  /\ Len(ix) > 0
  /\ Len(ix) < Len(flow)
  /\ \E n \in 2..Len(flow) : flow[n][1] = ix[1]

\* C2: with the edges sorted upstream first, the distance to the outlet of every
\* channel giver is the sum of the edge lengths along its flow path, and it does
\* not decrease from a receiver to its giver
C2_DistanceToOutlet ==
  UpstreamFirst =>
    \A n \in 1..Len(ix) :
      /\ dx[n] = LengthToOutlet(ix[n])
      /\ ixc[n] \in GiverCells => Z2Leq(dx[EdgeOf(ixc[n])], dx[n])

\* a path of three edges with a straight and a diagonal step
C2_Witness ==
  /\ UpstreamFirst
  /\ \E n \in 1..Len(ix) :
       /\ ixc[n] \in GiverCells
       /\ ixc[EdgeOf(ixc[n])] \in GiverCells
       /\ dx[n][1] > 0
       /\ dx[n][2] > 0

\* C3: after every calculate_chi(thetaref, a0), the chi of a giver is the chi of
\* its receiver (0 at an outlet) plus a0*dd/ax^thetaref, which is not negative,
\* so chi does not decrease upstream
C3_ChiRecurrence ==
  \A n \in 1..Len(ix) :
    /\ ax[n] > 0
    /\ Z2Scale(Pow(ax[n], thetaref), Z2Sub(chi[n], ChiAt(ixc[n])))
         = Z2Scale(a0 * ChiDen, dd[n])
    /\ Z2NonNeg(Z2Sub(chi[n], ChiAt(ixc[n])))
    /\ Z2Leq(ChiAt(ixc[n]), chi[n])

\* calculate_chi was called again with other parameters on a path of two edges
C3_Witness ==
  /\ thetaref = 0
  /\ a0 = 2
  /\ \E n \in 1..Len(ix) : ixc[n] \in GiverCells /\ ax[n] > CellSize * CellSize

(***************************************************************************)
(* Points of interest                                                      *)
(***************************************************************************)
\* the cells a get_stream_poi result names, whatever its coordinates
ResultCells ==
  LET k == IF out.coords \in CoordKinds THEN out.coords ELSE "CELL"
  IN  { c \in Cells(shape) :
          \E n \in 1..Len(out.val) :
            out.val[n] = IF k = "IND" THEN c
                         ELSE IF k = "CELL" THEN ind_2_cell(shape, c)
                         ELSE cell_2_xy(shape, ind_2_cell(shape, c)[1],
                                        ind_2_cell(shape, c)[2]) }

\* C4: get_stream_poi returns as heads the givers that receive no edge, as
\* confluences the cells that receive two or more edges, as outlets the
\* receivers that give no edge, each once
C4_PoiClassification ==
  (out.op = "get_stream_poi" /\ out.kind \in PoiKinds) =>
    /\ out.err = ""
    /\ Len(out.val) = Cardinality(ResultCells)
    /\ out.kind = "heads" => ResultCells = HeadCells
    /\ out.kind = "confluences" => ResultCells = ConfluenceCells
    /\ out.kind = "outlets" => ResultCells = OutletCells

\* the confluences of a network whose confluence flows on to an outlet
C4_Witness ==
  /\ out.op = "get_stream_poi"
  /\ out.kind = "confluences"
  /\ Len(out.val) > 0
  /\ HeadCells # {}
  /\ OutletCells \ ConfluenceCells # {}

\* C5 as stated: heads, confluences and outlets are pairwise disjoint, a head
\* being an outlet in a network of one edge at most
C5_PairwiseDisjoint ==
  /\ PoiCells("heads") \cap PoiCells("confluences") = {}
  /\ PoiCells("confluences") \cap PoiCells("outlets") = {}
  /\ PoiCells("heads") \cap PoiCells("outlets") # {} => Len(ix) = 1

\* C5 amended: the heads are disjoint from the confluences and from the outlets;
\* the cells returned both as confluence and as outlet are the cells that
\* receive two or more edges and give none
C5_HeadsApart ==
  /\ PoiCells("heads") \cap PoiCells("confluences") = {}
  /\ PoiCells("heads") \cap PoiCells("outlets") = {}
  /\ PoiCells("confluences") \cap PoiCells("outlets")
       = { c \in NetworkCells : InDegree(c) >= 2 /\ c \notin GiverCells }

\* two tributaries meet in a cell that gives no edge, after a query for it
C5_Witness ==
  /\ out.op = "get_stream_poi"
  /\ out.kind = "outlets"
  /\ PoiCells("confluences") \cap PoiCells("outlets") # {}
  /\ PoiCells("heads") # {}

(***************************************************************************)
(* Point snapping                                                          *)
(***************************************************************************)
CellXY(c) == cell_2_xy(shape, ind_2_cell(shape, c)[1], ind_2_cell(shape, c)[2])

SnapKindOf(kind) == IF kind \in SnapKinds THEN kind ELSE "channel"

\* C6 as stated: snapping to the channel returns, for every query point, the
\* coordinate of a nearest channel cell, givers and outlets alike; a point on
\* the centre of a channel cell is returned unchanged
C6_SnapToChannelCells ==
  (out.op = "snap_points" /\ SnapKindOf(out.kind) = "channel" /\ NetworkCells # {}) =>
    /\ out.err = ""
    /\ Len(out.val) = Len(out.points)
    /\ \A n \in 1..Len(out.points) :
         /\ \E c \in NetworkCells : out.val[n] = CellXY(c)
         /\ \A c \in NetworkCells :
              SquaredDistance(out.points[n], out.val[n])
                <= SquaredDistance(out.points[n], CellXY(c))
         /\ (\E c \in NetworkCells : out.points[n] = CellXY(c)) => out.val[n] = out.points[n]

\* the cells whose coordinates are the reference set of a kind
ReferenceCells(kind) ==
  IF kind = "heads" THEN HeadCells
  ELSE IF kind = "confluences" THEN ConfluenceCells
  ELSE IF kind = "outlets" THEN OutletCells
  ELSE GiverCells

\* C7: snap_points raises, and returns no array, whenever the reference set of
\* the requested kind is empty, whatever the points
C7_EmptyReferenceRaises ==
  (out.op = "snap_points" /\ ReferenceCells(SnapKindOf(out.kind)) = {}) =>
    out.err # "" /\ out.val = << >>

\* points were snapped to the confluences of a network that has edges and no
\* confluence
C7_Witness ==
  /\ out.op = "snap_points"
  /\ out.kind = "confluences"
  /\ Len(ix) > 1
  /\ ConfluenceCells = {}
  /\ Len(out.points) > 0
  /\ out.err = "ValueError"

(***************************************************************************)
(* Segments and stream order                                               *)
(***************************************************************************)
\* the head or confluence that starts the segment of a channel cell
RECURSIVE SegmentStart(_)
SegmentStart(c) ==
  IF c \in HeadCells \cup ConfluenceCells THEN c
  ELSE SegmentStart(ix[CHOOSE n \in 1..Len(ixc) : ixc[n] = c])

\* C8: with the edges sorted upstream first, get_stream_segments gives every
\* channel cell an id other than 0 and every other cell 0, and two channel
\* cells have the same id exactly when their segments start at the same head or
\* confluence
C8_SegmentIds ==
  (out.op = "get_stream_segments" /\ UpstreamFirst) =>
    /\ out.err = ""
    /\ \A c \in Cells(shape) : out.val[c] # 0 <=> c \in NetworkCells
    /\ \A c, d \in NetworkCells :
         out.val[c] = out.val[d] <=> SegmentStart(c) = SegmentStart(d)

\* the segments of a network where a confluence flows on: a segment of two
\* cells below it, and segments above it
C8_Witness ==
  /\ out.op = "get_stream_segments"
  /\ UpstreamFirst
  /\ \E c \in ConfluenceCells : c \in GiverCells /\ out.val[ixc[EdgeOf(c)]] = out.val[c]
  /\ \E c, d \in GiverCells : out.val[c] # out.val[d]

\* the givers of the edges into a cell
GiversInto(c) == { ix[n] : n \in { m \in 1..Len(ixc) : ixc[m] = c } }

\* C9 as stated: get_stream_order returns, where exactly two tributaries of
\* equal order k meet, k+1 for strahler, and the sum of the two orders for
\* shreeve, every channel cell starting at order 1
C9_OrderAtConfluence ==
  (out.op = "get_stream_order" /\ out.kind \in OrderKinds /\ UpstreamFirst) =>
    /\ out.err = ""
    /\ \A c \in NetworkCells : out.val[c] >= 1
    /\ \A c \in HeadCells : out.val[c] = 1
    /\ \A c \in ConfluenceCells : \A g, h \in GiversInto(c) :
         (InDegree(c) = 2 /\ g # h) =>
           /\ (out.kind = "strahler" /\ out.val[g] = out.val[h]) => out.val[c] = out.val[g] + 1
           /\ out.kind = "shreeve" => out.val[c] = out.val[g] + out.val[h]

\* C11 as stated: get_streams completes without error on every constructed
\* network and returns 1 at the channel cells, the cells of ix or ixc, and the
\* NoData marker 0 at every other cell
C11_StreamsRaster ==
  out.op = "get_streams" =>
    /\ out.err = ""
    /\ DOMAIN out.val = Cells(shape)
    /\ \A c \in Cells(shape) : out.val[c] = IF c \in NetworkCells THEN 1 ELSE 0

\* the Strahler number of a channel cell: 1 at a head; below, the largest
\* number among the tributaries, plus 1 when two or more of them have it
RECURSIVE Strahler(_)
Strahler(c) ==
  IF InDegree(c) = 0 THEN 1
  ELSE LET ords == { Strahler(g) : g \in GiversInto(c) }
           top == CHOOSE m \in ords : \A k \in ords : k <= m
       IN  IF Cardinality({ g \in GiversInto(c) : Strahler(g) = top }) >= 2
           THEN top + 1
           ELSE top

\* C15 as stated: over an array that holds 1 at the channel cells, the strahler
\* loop of get_stream_order leaves the Strahler number at every channel cell,
\* whatever the order of the edges in the upstream-first edge list, at
\* confluences of three and more tributaries too
C15_StandardStrahler ==
  (out.op = "strahler_loop" /\ UpstreamFirst) =>
    /\ out.err = ""
    /\ \A c \in NetworkCells : out.val[c] = Strahler(c)

(***************************************************************************)
(* Channel slope                                                           *)
(***************************************************************************)
\* C12 as stated: while calculate_slope runs, no step changes the slope of a
\* cell that an earlier step has set to a value other than 0: not the first
\* fit of a later head, not a later fit of the window, not the value written
\* where a path ends
C12_WriteOnce ==
  [][(cs.pc # "idle" /\ cs'.pc # "idle") =>
       \A c \in Cells(shape) :
         cs.slopes[c] # SlopeZero => SlopeEq(cs'.slopes[c], cs.slopes[c])]_vars

\* C13 as stated: calculate_slope ends without error for every npoints >= 1:
\* a walk keeps a window of three cells or more, shrinking it by two down to
\* exactly three where the path ends, and the method raises nothing
C13_EndsWithoutError ==
  /\ out.op = "calculate_slope" => out.err = ""
  /\ cs.pc = "walk" => Len(cs.win) >= 3

\* a head whose receiver, or whose receiver's receiver, is an outlet
ShortHead(h) ==
  \/ ixc[EdgeOf(h)] \notin GiverCells
  \/ ixc[EdgeOf(ixc[EdgeOf(h)])] \notin GiverCells

\* C14 as stated: calculate_slope skips a head whose path has no three cells
\* with an edge of their own: it fits no window and writes no slope and no R2
\* for it, the edge looked up for an outlet never being that of another cell
C14_ShortHeadSkipped ==
  [][(cs.pc = "head" /\ cs.heads # << >> /\ ShortHead(Head(cs.heads))) =>
       /\ cs'.pc = "head"
       /\ cs'.heads = Tail(cs.heads)
       /\ cs'.slopes = cs.slopes
       /\ cs'.r2 = cs.r2]_vars

\* a flow graph that is one straight path of five cells: four edges, each
\* starting where the one before it ends, all in the same direction
StraightPathOfFive ==
  /\ Len(flow) = 4
  /\ \A n \in 1..3 :
       /\ flow[n][2] = flow[n + 1][1]
       /\ flow[n][2] - flow[n][1] = flow[n + 1][2] - flow[n + 1][1]
  /\ \A n \in 1..4 : get_flow_accumulation(shape, flow)[flow[n][1]] = n
  /\ get_flow_accumulation(shape, flow)[flow[4][2]] = 5

\* C10 as stated: the path of five cells thresholded at 2 gives a network of
\* four edges, with the source cell as only head and the last cell as only outlet
C10_FourEdges ==
  (StraightPathOfFive /\ threshold = 2) =>
    /\ Len(ix) = 4
    /\ PoiCells("heads") = { flow[1][1] }
    /\ PoiCells("outlets") = { flow[4][2] }

\* C10 amended: the path of five cells thresholded at 2 gives a network of two
\* edges, those of the givers with accumulation 3 and 4; its only head is the
\* cell with accumulation 3 and its only outlet the last cell
C10_TwoEdges ==
  (StraightPathOfFive /\ threshold = 2) =>
    /\ Len(ix) = 2
    /\ ix = << flow[3][1], flow[4][1] >>
    /\ PoiCells("heads") = { flow[3][1] }
    /\ PoiCells("outlets") = { flow[4][2] }

\* the heads of the thresholded path were asked for
C10_Witness ==
  /\ StraightPathOfFive
  /\ threshold = 2
  /\ out.op = "get_stream_poi"
  /\ out.kind = "heads"
  /\ out.coords = "IND"
  /\ Len(out.val) = 1

====
